---- MODULE Spec2Model ----
(***************************************************************************)
(* A model of rust-fractal-generator (src/src/main.rs): the Image buffer,  *)
(* the Complex arithmetic, the coordinate mapping and generate's pixel     *)
(* loops, escape loop and colour banding.                                  *)
(*                                                                         *)
(* f64 is modelled as a small decimal floating format that keeps the       *)
(* IEEE 754 structure the program depends on: finite values are multiples  *)
(* of 1/Scale with magnitude at most FMax/Scale, every operation rounds    *)
(* its exact result to the nearest representable value (ties to even), a   *)
(* result beyond the largest finite value is an infinity, and the invalid  *)
(* operations (inf - inf, 0 * inf, 0/0, inf/inf, sqrt of a negative) give  *)
(* NaN, which compares false with everything, itself included.  The sign   *)
(* of zero is not modelled.  usize and i32 values stay far below their     *)
(* widths at the sizes explored, so they are plain integers.               *)
(***************************************************************************)
EXTENDS Integers, Sequences, FiniteSets, TLC

\* ---------------------------------------------------------------- bounds
Scale == 1000       \* finite floats are multiples of 1/Scale
FMax == 40000       \* largest finite float, in units of 1/Scale
MaxW == 3           \* largest width generate is called with
MaxH == 3           \* largest height generate is called with

\* The element of a singleton.  In The({ e(m) : m \in {n} }) the set binds m to
\* the value of n, which is then computed once however often e uses it.
The(S) == CHOOSE e \in S : TRUE

\* ------------------------------------------------------------------- f64
NaN == [k |-> "nan", v |-> 0]
PInf == [k |-> "inf", v |-> 1]
NInf == [k |-> "inf", v |-> -1]

\* The float nearest to the exact value n/Scale: overflow gives an infinity.
Fin(n) ==
    The({ IF m > FMax THEN PInf
          ELSE IF m < -FMax THEN NInf
          ELSE [k |-> "fin", v |-> m] : m \in {n} })

IsNaN(p) == p.k = "nan"
IsInf(p) == p.k = "inf"
IsFinite(p) == p.k = "fin"

\* n/d for d > 0, rounded to the nearest integer, ties to even.
RoundDiv(n, d) ==
    The({ IF 2 * (m % d) > d \/ (2 * (m % d) = d /\ (m \div d) % 2 = 1)
          THEN m \div d + 1
          ELSE m \div d : m \in {n} })

Sign(p) == IF p.v > 0 THEN 1 ELSE IF p.v < 0 THEN -1 ELSE 0

\* usize as f64
FromInt(n) == Fin(n * Scale)

\* A decimal literal num/den, rounded to the nearest float.
Literal(num, den) == Fin(RoundDiv(num * Scale, den))

FNeg(p) == [k |-> p.k, v |-> -p.v]

\* f64 + f64
FAdd(p, q) ==
    IF IsNaN(p) \/ IsNaN(q) THEN NaN
    ELSE IF IsInf(p) THEN (IF IsInf(q) /\ q.v # p.v THEN NaN ELSE p)
    ELSE IF IsInf(q) THEN q
    ELSE Fin(p.v + q.v)

\* f64 - f64
FSub(p, q) == FAdd(p, FNeg(q))

\* f64 * f64
FMul(p, q) ==
    IF IsNaN(p) \/ IsNaN(q) THEN NaN
    ELSE IF IsInf(p) \/ IsInf(q)
         THEN (IF Sign(p) * Sign(q) = 0 THEN NaN
               ELSE [k |-> "inf", v |-> Sign(p) * Sign(q)])
    ELSE Fin(RoundDiv(p.v * q.v, Scale))

\* f64 / f64
FDiv(p, q) ==
    IF IsNaN(p) \/ IsNaN(q) THEN NaN
    ELSE IF IsInf(p)
         THEN (IF IsInf(q) THEN NaN
               ELSE [k |-> "inf", v |-> IF q.v < 0 THEN -p.v ELSE p.v])
    ELSE IF IsInf(q) THEN Fin(0)
    ELSE IF q.v = 0
         THEN (IF p.v = 0 THEN NaN ELSE [k |-> "inf", v |-> Sign(p)])
    ELSE IF q.v < 0 THEN Fin(RoundDiv(-(p.v * Scale), -q.v))
    ELSE Fin(RoundDiv(p.v * Scale, q.v))

\* The largest r in lo..hi with r*r <= n (lo*lo <= n < (hi+1)*(hi+1)), by
\* bisection.
RECURSIVE ISqrt(_, _, _)
ISqrt(n, lo, hi) ==
    IF lo >= hi THEN lo
    ELSE The({ IF mid * mid <= n THEN ISqrt(n, mid, hi) ELSE ISqrt(n, lo, mid - 1) :
               mid \in {(lo + hi + 1) \div 2} })

\* The integer nearest to the square root of n >= 0.
NearestRoot(n) ==
    The({ IF n - r * r > r THEN r + 1 ELSE r : r \in {ISqrt(n, 0, FMax)} })

\* f64::sqrt
FSqrt(p) ==
    IF IsNaN(p) THEN NaN
    ELSE IF IsInf(p) THEN (IF p.v > 0 THEN PInf ELSE NaN)
    ELSE IF p.v < 0 THEN NaN
    ELSE The({ Fin(NearestRoot(n)) : n \in {p.v * Scale} })

\* f64 <= f64 : false when either side is NaN
FLe(p, q) ==
    IF IsNaN(p) \/ IsNaN(q) THEN FALSE
    ELSE IF IsInf(p) THEN (p.v < 0 \/ (IsInf(q) /\ q.v > 0))
    ELSE IF IsInf(q) THEN q.v > 0
    ELSE p.v <= q.v

\* f64 > f64 : false when either side is NaN
FGt(p, q) ==
    IF IsNaN(p) \/ IsNaN(q) THEN FALSE
    ELSE ~FLe(p, q)

\* f64 == f64 : false when either side is NaN
FEq(p, q) == ~IsNaN(p) /\ ~IsNaN(q) /\ p = q

\* --------------------------------------------------------------- Complex
Complex(re, im) == [re |-> re, im |-> im]

\* #[derive(PartialEq)] on two f64 fields
CEq(p, q) == FEq(p.re, q.re) /\ FEq(p.im, q.im)

\* Complex::abs
Abs(p) == FSqrt(FAdd(FMul(p.re, p.re), FMul(p.im, p.im)))

CAdd(p, q) == Complex(FAdd(p.re, q.re), FAdd(p.im, q.im))

CSub(p, q) == Complex(FSub(p.re, q.re), FSub(p.im, q.im))

\* CMul with the sign of the real part's second product wrong.
CMulPlus(p, q) ==
    Complex(FAdd(FMul(p.re, q.re), FMul(p.im, q.im)),
            FAdd(FMul(p.re, q.im), FMul(p.im, q.re)))

CMul(p, q) ==
    Complex(FSub(FMul(p.re, q.re), FMul(p.im, q.im)),
            FAdd(FMul(p.re, q.im), FMul(p.im, q.re)))

\* fn map
Map(v, from_a, from_b, to_a, to_b) ==
    FAdd(to_a, FMul(FDiv(FSub(to_b, to_a), FSub(from_b, from_a)), FSub(v, from_a)))

\* ----------------------------------------------------------------- Image
\* Image::new
ImageNew(w, h) ==
    [width |-> w, height |-> h, data |-> [i \in 0 .. (w * h - 1) |-> 0]]

\* v as u8
AsU8(v) == v % 256

\* v << k on values that stay below 2^31
Shl(v, k) == v * (2 ^ k)

\* m | n on non-negative integers, bit by bit
RECURSIVE BitOr(_, _)
BitOr(m, n) ==
    IF m = 0 THEN n
    ELSE IF n = 0 THEN m
    ELSE (IF m % 2 = 1 \/ n % 2 = 1 THEN 1 ELSE 0) + 2 * BitOr(m \div 2, n \div 2)

\* Pack with the channels in the order b, g, r.
PackBgr(r, g, bl) == BitOr(BitOr(Shl(bl, 16), Shl(g, 8)), r)

\* (r as i32) << 16 | (g as i32) << 8 | (b as i32)
Pack(r, g, bl) == BitOr(BitOr(Shl(r, 16), Shl(g, 8)), bl)

\* The index set_color writes at.
Index(image, px, py) == py * image.width + px

\* The two assertions of set_color, and the bounds check of the indexing.
SetColorPanics(image, px, py) ==
    \/ ~(px < image.width)
    \/ ~(py < image.height)
    \/ Index(image, px, py) \notin DOMAIN image.data

\* Image::set_color on a call that does not panic
SetColor(image, px, py, r, g, bl) ==
    [image EXCEPT !.data[Index(image, px, py)] = Pack(r, g, bl)]

\* -------------------------------------------------------------- generate
MAX_ITERATIONS == 255 + 255 + 255

c == Complex(Literal(-4, 10), Literal(5868, 10000))

\* WhileCond without the cap on iterations.
WhileCondNoCap(zv, n) == FLe(Abs(zv), FromInt(2))

\* WhileCond with the cap tested by <=.
WhileCondInclusive(zv, n) == FLe(Abs(zv), FromInt(2)) /\ n <= MAX_ITERATIONS

\* The condition of the escape loop.
WhileCond(zv, n) == FLe(Abs(zv), FromInt(2)) /\ n < MAX_ITERATIONS

\* StartIterations with the counter declared outside the pixel loops.
KeepIterations(n) == n

\* The iterations an escape loop starts from.
StartIterations(n) == 0

\* Bands with the third band subtracting 255 once.
BandsThirdShort(n) ==
    IF n <= 255 THEN [r |-> AsU8(n), g |-> 0, b |-> 0]
    ELSE IF n <= 255 + 255 THEN [r |-> 255, g |-> AsU8(n - 255), b |-> 0]
    ELSE [r |-> 255, g |-> 255, b |-> AsU8(n - 255)]

\* The colour of an escape count.
Bands(n) ==
    IF n <= 255 THEN [r |-> AsU8(n), g |-> 0, b |-> 0]
    ELSE IF n <= 255 + 255 THEN [r |-> 255, g |-> AsU8(n - 255), b |-> 0]
    ELSE [r |-> 255, g |-> 255, b |-> AsU8(n - 255 - 255)]

\* ----------------------------------------------------------------- state
VARIABLES
    entry,       \* the function under execution: generate, test_image, test_complex
    pc,          \* its position
    fault,       \* the panic that ended it, "none" while there is none
    from_x, to_x, from_y, to_y, width, height,   \* the arguments
    img,         \* the Image
    x, y,        \* the pixel: the loop variables, or set_color's arguments
    iterations, a, b, z,    \* the locals of one pixel
    rgb,         \* r, g, b: the colour of the pixel, or set_color's arguments
    writes,      \* history: how often set_color has written each cell
    z1, z2, res  \* test_complex: the operands and the sum, difference, product

vars == <<entry, pc, fault, from_x, to_x, from_y, to_y, width, height, img,
          x, y, iterations, a, b, z, rgb, writes, z1, z2, res>>

args == <<entry, from_x, to_x, from_y, to_y, width, height>>
pixel == <<iterations, a, b, z>>
complexTest == <<z1, z2, res>>

Zero == Fin(0)
Black == [r |-> 0, g |-> 0, b |-> 0]
NoImage == [width |-> 0, height |-> 0, data |-> <<>>]
NoResult == [sum |-> Complex(Zero, Zero), diff |-> Complex(Zero, Zero),
             prod |-> Complex(Zero, Zero)]

\* The viewports generate is called with: <<from_x, to_x, from_y, to_y>>.
Viewports ==
    { <<FromInt(-2), FromInt(2), FromInt(-2), FromInt(2)>>,      \* main's
      <<FromInt(-1), FromInt(1), FromInt(-1), FromInt(1)>>,
      <<FromInt(1), FromInt(1), FromInt(-2), FromInt(2)>>,       \* no width
      <<FromInt(-2), FromInt(2), FromInt(1), FromInt(1)>>,       \* no height
      <<Zero, Zero, Fin(-FMax), Fin(FMax)>>,          \* to_y - from_y overflows
      <<Fin(-FMax), Fin(FMax), Fin(-FMax), Fin(FMax)>> }

\* The images test_image builds and the pixels and colours it sets.
TestDims == ((0 .. MaxW) \X (0 .. MaxH)) \cup {<<100, 80>>}
TestXs == (0 .. MaxW) \cup {15}
TestYs == (0 .. MaxH) \cup {50}
TestColors ==
    { [r |-> 255, g |-> 0, b |-> 127], Black,
      [r |-> 255, g |-> 255, b |-> 255], [r |-> 1, g |-> 2, b |-> 3] }

InitLocals ==
    /\ fault = "none"
    /\ img = NoImage
    /\ iterations = 0
    /\ a = Zero
    /\ b = Zero
    /\ z = Complex(Zero, Zero)
    /\ writes = <<>>
    /\ z1 = Complex(Zero, Zero)
    /\ z2 = Complex(Zero, Zero)
    /\ res = NoResult

\* main: generate(from_x, to_x, from_y, to_y, width, height, filename)
InitGenerate ==
    /\ entry = "generate"
    /\ \E v \in Viewports :
          /\ from_x = v[1]
          /\ to_x = v[2]
          /\ from_y = v[3]
          /\ to_y = v[4]
    /\ width \in 0 .. MaxW
    /\ height \in 0 .. MaxH
    /\ x = 0
    /\ y = 0
    /\ rgb = Black
    /\ pc = "new"
    /\ InitLocals

\* test_image: Image::new(width, height), then set_color(x, y, r, g, b)
InitTestImage ==
    /\ entry = "test_image"
    /\ from_x = Zero
    /\ to_x = Zero
    /\ from_y = Zero
    /\ to_y = Zero
    /\ \E d \in TestDims :
          /\ width = d[1]
          /\ height = d[2]
    /\ x \in TestXs
    /\ y \in TestYs
    /\ rgb \in TestColors
    /\ pc = "new"
    /\ InitLocals

Init == InitGenerate \/ InitTestImage

\* --------------------------------------------------------------- actions
\* let mut img = Image::new(width, height)
New ==
    /\ pc = "new"
    /\ img' = ImageNew(width, height)
    /\ writes' = [i \in 0 .. (width * height - 1) |-> 0]
    /\ pc' = IF entry = "generate" THEN "for_x" ELSE "set_color"
    /\ UNCHANGED <<args, fault, x, y, pixel, rgb, complexTest>>

\* ForX over 0..width-1.
ForXShort ==
    /\ pc = "for_x"
    /\ IF x < width - 1
       THEN /\ y' = 0
            /\ pc' = "for_y"
       ELSE /\ y' = y
            /\ pc' = "save"
    /\ UNCHANGED <<args, fault, img, x, pixel, rgb, writes, complexTest>>

\* ForX over 0..=width.
ForXInclusive ==
    /\ pc = "for_x"
    /\ IF x <= width
       THEN /\ y' = 0
            /\ pc' = "for_y"
       ELSE /\ y' = y
            /\ pc' = "save"
    /\ UNCHANGED <<args, fault, img, x, pixel, rgb, writes, complexTest>>

\* for x in 0..width
ForX ==
    /\ pc = "for_x"
    /\ IF x < width
       THEN /\ y' = 0
            /\ pc' = "for_y"
       ELSE /\ y' = y
            /\ pc' = "save"
    /\ UNCHANGED <<args, fault, img, x, pixel, rgb, writes, complexTest>>

\* ForY over 0..=height.
ForYInclusive ==
    /\ pc = "for_y"
    /\ IF y <= height
       THEN /\ x' = x
            /\ pc' = "map"
       ELSE /\ x' = x + 1
            /\ pc' = "for_x"
    /\ UNCHANGED <<args, fault, img, y, pixel, rgb, writes, complexTest>>

\* for y in 0..height, and the end of the body of the loop over x
ForY ==
    /\ pc = "for_y"
    /\ IF y < height
       THEN /\ x' = x
            /\ pc' = "map"
       ELSE /\ x' = x + 1
            /\ pc' = "for_x"
    /\ UNCHANGED <<args, fault, img, y, pixel, rgb, writes, complexTest>>

\* MapPixel with map's two intervals in each other's place.
MapPixelSwapped ==
    /\ pc = "map"
    /\ iterations' = StartIterations(iterations)
    /\ a' = Map(FromInt(x), from_x, to_x, Zero, FromInt(width))
    /\ b' = Map(FromInt(y), from_y, to_y, Zero, FromInt(height))
    /\ z' = Complex(a', b')
    /\ pc' = "while"
    /\ UNCHANGED <<args, fault, img, x, y, rgb, writes, complexTest>>

\* The head of the body: iterations, a, b, c and z.
MapPixel ==
    /\ pc = "map"
    /\ iterations' = StartIterations(iterations)
    /\ a' = Map(FromInt(x), Zero, FromInt(width), from_x, to_x)
    /\ b' = Map(FromInt(y), Zero, FromInt(height), from_y, to_y)
    /\ z' = Complex(a', b')
    /\ pc' = "while"
    /\ UNCHANGED <<args, fault, img, x, y, rgb, writes, complexTest>>

\* One turn of the escape loop: z = z * z + c; iterations += 1
WhileBody ==
    /\ pc = "while"
    /\ WhileCond(z, iterations)
    /\ z' = CAdd(CMul(z, z), c)
    /\ iterations' = iterations + 1
    /\ UNCHANGED <<args, pc, fault, img, x, y, a, b, rgb, writes, complexTest>>

\* The escape loop ends.
WhileExit ==
    /\ pc = "while"
    /\ ~WhileCond(z, iterations)
    /\ pc' = "color"
    /\ UNCHANGED <<args, fault, img, x, y, pixel, rgb, writes, complexTest>>

\* r, g, b from iterations
Color ==
    /\ pc = "color"
    /\ rgb' = Bands(iterations)
    /\ pc' = "set_color"
    /\ UNCHANGED <<args, fault, img, x, y, pixel, writes, complexTest>>

\* img.set_color(x, y, r, g, b): in generate the end of the body of the loop
\* over y, in test_image the call under test.
SetColorCall ==
    /\ pc = "set_color"
    /\ IF SetColorPanics(img, x, y)
       THEN /\ fault' = "invalid pixel"
            /\ pc' = "panic"
            /\ UNCHANGED <<img, writes, y>>
       ELSE /\ img' = SetColor(img, x, y, rgb.r, rgb.g, rgb.b)
            /\ writes' = [writes EXCEPT ![Index(img, x, y)] = @ + 1]
            /\ fault' = fault
            /\ IF entry = "generate"
               THEN /\ y' = y + 1
                    /\ pc' = "for_y"
               ELSE /\ y' = y
                    /\ pc' = "done"
    /\ UNCHANGED <<args, x, pixel, rgb, complexTest>>

\* img.save(filename): the file is written, or creating or writing it fails.
Save ==
    /\ pc = "save"
    /\ \/ /\ pc' = "done"
          /\ fault' = fault
       \/ /\ pc' = "panic"
          /\ fault' = "io"
    /\ UNCHANGED <<args, img, x, y, pixel, rgb, writes, complexTest>>

Next == New \/ ForX \/ ForY \/ MapPixel \/ WhileBody \/ WhileExit \/ Color
        \/ SetColorCall \/ Save

Spec == Init /\ [][Next]_vars

\* generate runs on one thread and nothing suspends it: it takes its next step.
FairSpec == Spec /\ WF_vars(Next)

\* ------------------------------------------------- the colour bands alone
\* generate at its colour step, with every escape count the loop can leave.
InitColor ==
    /\ entry = "generate"
    /\ from_x = FromInt(-2)
    /\ to_x = FromInt(2)
    /\ from_y = FromInt(-2)
    /\ to_y = FromInt(2)
    /\ width = 0
    /\ height = 0
    /\ x = 0
    /\ y = 0
    /\ rgb = Black
    /\ pc = "color"
    /\ fault = "none"
    /\ img = NoImage
    /\ iterations \in 0 .. MAX_ITERATIONS
    /\ a = Zero
    /\ b = Zero
    /\ z = Complex(Zero, Zero)
    /\ writes = <<>>
    /\ z1 = Complex(Zero, Zero)
    /\ z2 = Complex(Zero, Zero)
    /\ res = NoResult

ColorSpec == InitColor /\ [][Color]_vars

\* ---------------------------------------------------------- test_complex
\* The f64 values the operands are built from.
Floats ==
    { Zero, FromInt(1), FromInt(2), FromInt(-1), FromInt(3), Literal(-1, 2),
      Fin(FMax), PInf, NaN }

InitComplex ==
    /\ entry = "test_complex"
    /\ from_x = Zero
    /\ to_x = Zero
    /\ from_y = Zero
    /\ to_y = Zero
    /\ width = 0
    /\ height = 0
    /\ x = 0
    /\ y = 0
    /\ rgb = Black
    /\ pc = "test"
    /\ fault = "none"
    /\ img = NoImage
    /\ iterations = 0
    /\ a = Zero
    /\ b = Zero
    /\ z = Complex(Zero, Zero)
    /\ writes = <<>>
    /\ z1 \in { Complex(p, q) : p \in Floats, q \in Floats }
    /\ z2 \in { Complex(p, q) : p \in Floats, q \in Floats }
    /\ res = NoResult

\* z1 + z2, z1 - z2, z1 * z2: the operands are passed by value.
TestComplex ==
    /\ pc = "test"
    /\ res' = [sum |-> CAdd(z1, z2), diff |-> CSub(z1, z2), prod |-> CMul(z1, z2)]
    /\ pc' = "done"
    /\ UNCHANGED <<args, fault, img, x, y, pixel, rgb, writes, z1, z2>>

ComplexSpec == InitComplex /\ [][TestComplex]_vars

\* ================================================================ claims
InGenerate == entry = "generate"
AtSave == InGenerate /\ pc = "save"
InBody == InGenerate /\ pc \in {"while", "color", "set_color"}
Pixels == (0 .. (width - 1)) \X (0 .. (height - 1))
Cell(px, py) == img.data[py * width + px]

\* f[0] + ... + f[n-1]
RECURSIVE Total(_, _)
Total(f, n) == IF n = 0 THEN 0 ELSE f[n - 1] + Total(f, n - 1)

\* The orbit's next value: z*z + c.
NextZ(zv) == CAdd(CMul(zv, zv), c)

\* k turns of the escape loop from s = [z, n], none once its condition fails.
\* The turns are halved so that the evaluation stays shallow.
RECURSIVE Turns(_, _)
Turns(s, k) ==
    IF k = 0 \/ ~WhileCond(s.z, s.n) THEN s
    ELSE IF k = 1 THEN [z |-> NextZ(s.z), n |-> s.n + 1]
    ELSE The({ Turns(t, k - k \div 2) : t \in {Turns(s, k \div 2)} })

\* The count the escape loop leaves for the seed zv.
EscapeCount(zv) == Turns([z |-> zv, n |-> 0], MAX_ITERATIONS).n

\* From s = [z, n] with z = z_n, k steps towards the least n with
\* magnitude(z_n) > 2.0 true or n = 765.
RECURSIVE TowardsAbove(_, _)
TowardsAbove(s, k) ==
    IF k = 0 \/ s.n = 765 \/ FGt(Abs(s.z), FromInt(2)) THEN s
    ELSE IF k = 1 THEN [z |-> NextZ(s.z), n |-> s.n + 1]
    ELSE The({ TowardsAbove(t, k - k \div 2) : t \in {TowardsAbove(s, k \div 2)} })

\* The least n in 0..765 with magnitude(z_n) > 2.0 true or n = 765, z_0 = zv.
LeastAbove(zv) == TowardsAbove([z |-> zv, n |-> 0], 765).n

\* From s = [z, n] with z = z_n, k steps towards the least n with
\* magnitude(z_n) <= 2.0 false.
RECURSIVE TowardsNotWithin(_, _)
TowardsNotWithin(s, k) ==
    IF k = 0 \/ ~FLe(Abs(s.z), FromInt(2)) THEN s
    ELSE IF k = 1 THEN [z |-> NextZ(s.z), n |-> s.n + 1]
    ELSE The({ TowardsNotWithin(t, k - k \div 2) : t \in {TowardsNotWithin(s, k \div 2)} })

\* The least n in 0..765 with magnitude(z_n) <= 2.0 false or n = 765, z_0 = zv.
LeastNotWithin(zv) == TowardsNotWithin([z |-> zv, n |-> 0], 765).n

\* magnitude(z_k) <= 2.0 for all k in 0..764, z_0 = zv.
AllWithin(zv) ==
    LET s == TowardsNotWithin([z |-> zv, n |-> 0], 764)
    IN  IF s.n = 764 THEN FLe(Abs(s.z), FromInt(2)) ELSE FALSE

\* ---- C1
\* C1: whenever the colour step has run on an escape count n in 0..765, the
\* colour is (n,0,0) for n <= 255, (255,n-255,0) for 256 <= n <= 510 and
\* (255,255,n-510) for 511 <= n <= 765; in particular 256 gives (255,1,0),
\* 510 gives (255,255,0) and 765 gives (255,255,255).  The channels hold the
\* values as computed, so no cast to 8 bits has truncated one.
C1_Bands ==
    (InGenerate /\ pc = "set_color") =>
        /\ iterations \in 0 .. 765
        /\ iterations <= 255 => rgb = [r |-> iterations, g |-> 0, b |-> 0]
        /\ (256 <= iterations /\ iterations <= 510) =>
               rgb = [r |-> 255, g |-> iterations - 255, b |-> 0]
        /\ (511 <= iterations /\ iterations <= 765) =>
               rgb = [r |-> 255, g |-> 255, b |-> iterations - 510]
        /\ iterations = 256 => rgb = [r |-> 255, g |-> 1, b |-> 0]
        /\ iterations = 510 => rgb = [r |-> 255, g |-> 255, b |-> 0]
        /\ iterations = 765 => rgb = [r |-> 255, g |-> 255, b |-> 255]
        /\ rgb.r <= 255 /\ rgb.g <= 255 /\ rgb.b <= 255

C1_Witness ==
    /\ pc = "set_color"
    /\ iterations = 511
    /\ rgb = [r |-> 255, g |-> 255, b |-> 1]

\* ---- C2
\* C2: for width >= 1 and height >= 1, when generate is at the call of save the
\* buffer has width*height cells, set_color has written every pixel's cell
\* exactly once, and every cell holds a value in 0..2^24-1; on the way no cell
\* is ever written twice.
C2_EveryCellOnce ==
    /\ (InGenerate /\ pc # "new") =>
           \A i \in DOMAIN writes : writes[i] <= 1
    /\ (AtSave /\ width >= 1 /\ height >= 1) =>
           /\ DOMAIN img.data = 0 .. (width * height - 1)
           /\ Cardinality(DOMAIN img.data) = width * height
           /\ \A p \in Pixels : writes[p[2] * width + p[1]] = 1
           /\ \A i \in DOMAIN img.data :
                  writes[i] = 1 /\ img.data[i] \in 0 .. (2 ^ 24 - 1)

C2_Witness ==
    /\ AtSave
    /\ width >= 2
    /\ height >= 2
    /\ \A p \in Pixels : writes[p[2] * width + p[1]] = 1
    /\ \E p \in Pixels : Cell(p[1], p[2]) # 0

\* ---- C3
\* C3: the escape loop never counts beyond MAX_ITERATIONS = 765, and every run
\* of generate, from its start, reaches the call of save, set_color having
\* run width*height times by then.
C3_Terminates ==
    /\ [](InGenerate => iterations <= MAX_ITERATIONS)
    /\ (InGenerate /\ pc = "new") ~>
           (AtSave /\ Total(writes, width * height) = width * height)

C3_Witness ==
    /\ AtSave
    /\ width * height >= 4
    /\ Total(writes, width * height) = width * height
    /\ \E p \in Pixels : Cell(p[1], p[2]) = 16777215

\* ---- C4
\* C4: after set_color(x, y, r, g, b) with x < width and y < height on an image
\* of size width x height, the cell at offset y*width + x holds
\* r*65536 + g*256 + b and the image's width and height are those it was made
\* with; such a call does not panic; on a 100x80 image
\* set_color(15, 50, 255, 0, 127) stores 16711807 at offset 50*100+15.
C4_SetColorStores ==
    /\ (entry = "test_image" /\ pc = "done") =>
           /\ x < width /\ y < height
           /\ img.data[y * width + x] = rgb.r * 65536 + rgb.g * 256 + rgb.b
           /\ img.width = width
           /\ img.height = height
    /\ (entry = "test_image" /\ pc = "panic") => ~(x < width /\ y < height)
    /\ (entry = "test_image" /\ pc = "done" /\ width = 100 /\ height = 80
          /\ x = 15 /\ y = 50 /\ rgb = [r |-> 255, g |-> 0, b |-> 127]) =>
           img.data[50 * 100 + 15] = 16711807

C4_Witness ==
    /\ entry = "test_image"
    /\ pc = "done"
    /\ width = 100 /\ height = 80
    /\ x = 15 /\ y = 50
    /\ rgb = [r |-> 255, g |-> 0, b |-> 127]
    /\ img.data[5015] = 16711807

\* ---- C5
SumClaimed == Complex(FAdd(z1.re, z2.re), FAdd(z1.im, z2.im))
DiffClaimed == Complex(FSub(z1.re, z2.re), FSub(z1.im, z2.im))
ProdClaimed ==
    Complex(FSub(FMul(z1.re, z2.re), FMul(z1.im, z2.im)),
            FAdd(FMul(z1.re, z2.im), FMul(z1.im, z2.re)))
HasNaN(p) == IsNaN(p.re) \/ IsNaN(p.im)

\* C5 as stated: for all Complex values z1 = (a, b) and z2 = (c, d), z1 + z2,
\* z1 - z2 and z1 * z2 compare equal (==) to (a+c, b+d), (a-c, b-d) and
\* (a*c - b*d, a*d + b*c).
C5_AsStated ==
    (entry = "test_complex" /\ pc = "done") =>
        /\ CEq(res.sum, SumClaimed)
        /\ CEq(res.diff, DiffClaimed)
        /\ CEq(res.prod, ProdClaimed)

\* C5, amended: the components of z1 + z2, z1 - z2 and z1 * z2 are those of
\* (a+c, b+d), (a-c, b-d) and (a*c - b*d, a*d + b*c), and each compares equal
\* (==) to it exactly when none of its components is NaN; the operands are
\* not modified.
C5_Arithmetic ==
    /\ []((entry = "test_complex" /\ pc = "done") =>
            /\ res.sum = SumClaimed
            /\ res.diff = DiffClaimed
            /\ res.prod = ProdClaimed
            /\ CEq(res.sum, SumClaimed) <=> ~HasNaN(SumClaimed)
            /\ CEq(res.diff, DiffClaimed) <=> ~HasNaN(DiffClaimed)
            /\ CEq(res.prod, ProdClaimed) <=> ~HasNaN(ProdClaimed))
    /\ [][z1' = z1 /\ z2' = z2]_vars

C5_Witness ==
    /\ entry = "test_complex"
    /\ pc = "done"
    /\ z1 = Complex(FromInt(1), FromInt(2))
    /\ z2 = Complex(FromInt(-1), FromInt(3))
    /\ res.sum = Complex(Zero, FromInt(5))
    /\ res.diff = Complex(FromInt(2), FromInt(-1))
    /\ res.prod = Complex(FromInt(-7), FromInt(1))

\* ---- C6
\* C6: in generate every call of set_color has x < width and y < height and an
\* index inside the buffer, and generate never panics on an invalid pixel; a
\* direct set_color with x >= width or y >= height panics and leaves every
\* cell of the buffer unwritten.
C6_InBounds ==
    /\ (InGenerate /\ pc = "set_color") =>
           /\ x < width /\ y < height
           /\ x < img.width /\ y < img.height
           /\ (y * img.width + x) \in DOMAIN img.data
    /\ InGenerate => fault # "invalid pixel"
    /\ (entry = "test_image" /\ pc \in {"done", "panic"}
          /\ (x >= width \/ y >= height)) =>
           /\ pc = "panic"
           /\ fault = "invalid pixel"
           /\ \A i \in DOMAIN img.data : img.data[i] = 0 /\ writes[i] = 0

C6_Witness ==
    /\ InGenerate
    /\ pc = "set_color"
    /\ width >= 2 /\ height >= 2
    /\ x = width - 1
    /\ y = height - 1

\* ---- C7
\* The packed colour of pixel (px, py), from the arguments of generate alone.
PixelValue(px, py) ==
    LET seed == Complex(Map(FromInt(px), Zero, FromInt(width), from_x, to_x),
                        Map(FromInt(py), Zero, FromInt(height), from_y, to_y))
        col == Bands(EscapeCount(seed))
    IN  Pack(col.r, col.g, col.b)

C8_ZeroSize ==
    (InGenerate /\ (width = 0 \/ height = 0)) =>
        /\ pc # "new" => DOMAIN img.data = {}
        /\ pc \notin {"map", "while", "color", "set_color"}
        /\ iterations = 0
        /\ fault # "invalid pixel"

C8_Witness ==
    /\ InGenerate
    /\ width > 0
    /\ height = 0
    /\ x = width
    /\ pc = "done"

\* ---- C9
Degenerate == FEq(from_x, to_x) \/ FEq(from_y, to_y)
NonFinite(p) == ~IsFinite(p)

\* C9 as stated: with a degenerate viewport generate raises no error, the
\* mapped coordinates of a pixel are non-finite, its escape count is 0 and it
\* is written black.
C9_AsStated ==
    (InGenerate /\ Degenerate) =>
        /\ fault # "invalid pixel"
        /\ InBody => (NonFinite(a) \/ NonFinite(b))
        /\ pc \in {"color", "set_color"} => iterations = 0
        /\ pc = "set_color" => rgb = Black

\* C9, amended: with a degenerate viewport generate raises no error and the
\* coordinate mapped on a zero-width axis is finite and equal to that axis's
\* bound for every pixel; whatever the viewport, a pixel with a non-finite
\* mapped coordinate fails the escape test at once, so its escape count is 0
\* and it is written black.
C9_Degenerate ==
    /\ (InGenerate /\ Degenerate) => fault # "invalid pixel"
    /\ (InBody /\ FEq(from_x, to_x)) => (IsFinite(a) /\ a = from_x)
    /\ (InBody /\ FEq(from_y, to_y)) => (IsFinite(b) /\ b = from_y)
    /\ (InBody /\ (NonFinite(a) \/ NonFinite(b))) =>
           /\ iterations = 0
           /\ ~WhileCond(z, iterations)
           /\ pc = "set_color" => rgb = Black

C9_Witness ==
    /\ InGenerate
    /\ Degenerate
    /\ pc = "set_color"
    /\ IsFinite(a) /\ IsFinite(b)
    /\ iterations > 0
    /\ rgb # Black

\* ---- C10
\* C10 as stated: at the exit of the escape loop the count is the smallest n in
\* 0..765 such that magnitude(z_n) > 2.0 is true or n = 765.
C10_AsStated ==
    (InGenerate /\ pc = "color") => iterations = LeastAbove(Complex(a, b))

\* C10, amended: at the exit of the escape loop the count is the smallest n in
\* 0..765 such that magnitude(z_n) <= 2.0 is false or n = 765, for
\* z_0 = (a, b) and z_{k+1} = z_k*z_k + c; the count is always in 0..765, it
\* is 0 exactly when the seed fails magnitude <= 2.0, and 765 exactly when
\* magnitude(z_k) <= 2.0 for all k in 0..764.
C10_EscapeCount ==
    /\ InGenerate => iterations \in 0 .. 765
    /\ (InGenerate /\ pc = "while" /\ iterations = 0) => z = Complex(a, b)
    /\ (InGenerate /\ pc = "color") =>
           /\ iterations = LeastNotWithin(Complex(a, b))
           /\ iterations = 0 <=> ~FLe(Abs(Complex(a, b)), FromInt(2))
           /\ iterations = 765 <=> AllWithin(Complex(a, b))

C10_Witness ==
    /\ InGenerate
    /\ pc = "color"
    /\ iterations > 1
    /\ iterations < 765
    /\ iterations = LeastNotWithin(Complex(a, b))

====
